---------------------------- MODULE Spec2Model ----------------------------
(***************************************************************************)
(* A model of the blog platform (src/blog): the relational store (Post,    *)
(* Comment, Like, NewsletterSubscription rows), the save pipeline of       *)
(* Post, and the request handlers of views.py as processes whose steps are *)
(* the database statements they issue, so that requests interleave the way *)
(* the hosting thread pool lets them.                                      *)
(*                                                                         *)
(* Text is a sequence of one-character strings.  Time is a logical clock.  *)
(***************************************************************************)
EXTENDS Integers, Sequences, FiniteSets, TLC

(***************************************************************************)
(* Text helpers                                                            *)
(***************************************************************************)

\* a text made of n copies of the text s
Rep(s, n) == [i \in 1..(n * Len(s)) |-> s[((i - 1) % Len(s)) + 1]]

\* Python's s[:n]
Prefix(s, n) == IF Len(s) <= n THEN s ELSE SubSeq(s, 1, n)

UpperLetters == <<"A","B","C","D","E","F","G","H","I","J","K","L","M",
                  "N","O","P","Q","R","S","T","U","V","W","X","Y","Z">>
LowerLetters == <<"a","b","c","d","e","f","g","h","i","j","k","l","m",
                  "n","o","p","q","r","s","t","u","v","w","x","y","z">>
Digits == {"0","1","2","3","4","5","6","7","8","9"}
Whitespace == {" ", "\n", "\t"}

\* str.lower() on one character
LowerOf ==
    [c \in {UpperLetters[i] : i \in 1..Len(UpperLetters)} |->
        LowerLetters[CHOOSE i \in 1..Len(UpperLetters) : UpperLetters[i] = c]]

LowerChar(c) == IF c \in DOMAIN LowerOf THEN LowerOf[c] ELSE c

\* str.lower()
Lower(s) == [i \in 1..Len(s) |-> LowerChar(s[i])]

\* the regular expression class \w, on lower-cased ASCII text
IsWordChar(c) ==
    \/ \E i \in 1..Len(LowerLetters) : LowerLetters[i] = c
    \/ c \in Digits
    \/ c = "_"

IsSeparator(c) == c = "-" \/ c \in Whitespace

\* re.sub(r"[-\s]+", "-", s): every run of hyphens and whitespace becomes one
\* "-" (its first character becomes the "-", the others go)
CollapseSeparators(s) ==
    LET marked == [i \in 1..Len(s) |->
                      IF ~IsSeparator(s[i]) THEN s[i]
                      ELSE IF i > 1 /\ IsSeparator(s[i - 1]) THEN ""
                      ELSE "-"]
    IN  SelectSeq(marked, LAMBDA c : c # "")

\* str.strip("-_")
Strip(s) ==
    LET keep == {i \in 1..Len(s) : s[i] \notin {"-", "_"}}
    IN  IF keep = {} THEN << >>
        ELSE SubSeq(s, CHOOSE i \in keep : \A j \in keep : i <= j,
                       CHOOSE i \in keep : \A j \in keep : i >= j)

\* str.strip(): leading and trailing whitespace goes
StripWs(s) ==
    LET keep == {i \in 1..Len(s) : s[i] \notin Whitespace}
    IN  IF keep = {} THEN << >>
        ELSE SubSeq(s,
                 CHOOSE i \in keep : \A j \in 1..(i - 1) : s[j] \in Whitespace,
                 CHOOSE i \in keep :
                     \A j \in (i + 1)..Len(s) : s[j] \in Whitespace)

\* django.utils.text.slugify on ASCII text: lower-case, drop every character
\* that is not a word character, whitespace or a hyphen, collapse the
\* separators to single hyphens, strip leading and trailing "-" and "_"
slugify(value) ==
    LET kept == SelectSeq(Lower(value),
                   LAMBDA c : IsWordChar(c) \/ c \in Whitespace \/ c = "-")
    IN  Strip(CollapseSeparators(kept))

\* the character at i is part of a tag: a "<" at or before it has no ">"
\* between itself and i
InTag(s, i) ==
    \E j \in 1..i : s[j] = "<" /\ \A k \in j..(i - 1) : s[k] # ">"

\* django.utils.html.strip_tags on text whose tags are well formed: every
\* character from a "<" to the next ">" is dropped
strip_tags(s) ==
    IF \A i \in 1..Len(s) : s[i] # "<" THEN s
    ELSE LET marked == [i \in 1..Len(s) |-> IF InTag(s, i) THEN "" ELSE s[i]]
         IN  SelectSeq(marked, LAMBDA c : c # "")

\* len(s.split()): the number of maximal runs of non-whitespace characters
WordCount(s) ==
    Cardinality({i \in 1..Len(s) :
                    /\ s[i] \notin Whitespace
                    /\ (i = 1 \/ s[i - 1] \in Whitespace)})

\* rounding with halves going up
PyRoundHalfUp(n, d) == (2 * n + d) \div (2 * d)

\* Python 3 round(n / d) for n >= 0, d > 0: halves go to the even neighbour
PyRound(n, d) ==
    LET q == n \div d
        r == n % d
    IN  IF 2 * r < d THEN q
        ELSE IF 2 * r > d THEN q + 1
        ELSE IF q % 2 = 0 THEN q ELSE q + 1

Max(a, b) == IF a >= b THEN a ELSE b

\* icontains: needle is a case-insensitive substring of hay
IContains(hay, needle) ==
    \E i \in 0..(Len(hay) - Len(needle)) :
        \A j \in 1..Len(needle) : LowerChar(hay[i + j]) = LowerChar(needle[j])


(***************************************************************************)
(* Program constants and the bounds of the model                           *)
(***************************************************************************)

MinTitleLen   == 5
MaxTitleLen   == 200
MinContentLen == 50
MaxExcerptLen == 300
ExcerptChars  == 297
WordsPerMinute == 200
MinCommentLen == 10
ApiListLimit  == 10
TrendingDays  == 30

\* rows a table takes over a run (ids are never reused)
MaxPosts    == 2
MaxLikes    == 3
MaxSubs     == 2
MaxComments == 5
\* the last value of the logical clock
MaxTime     == 7
\* requests in flight at once in the content specification
MaxRequests == 2
\* the view count past which no further detail view is served
MaxViews    == 1
MaxViewers  == 3
MaxLikers   == 3
MaxSubscribers == 2

\* NULL in a nullable timestamp column; the clock starts after it
NullTime == 0

Users     == {"alice", "bob"}
Anonymous == "anon"
Requesters == Users \cup {Anonymous}

is_authenticated(u) == u \in Users

(***************************************************************************)
(* Post: the instance and its save pipeline                                *)
(***************************************************************************)

\* a Post instance that is no row (no object loaded)
NullPost ==
    [id |-> 0, title |-> << >>, slug |-> << >>, author |-> Anonymous,
     content |-> << >>, excerpt |-> << >>, status |-> "draft",
     published_at |-> NullTime, view_count |-> 0, reading_time |-> 0,
     is_featured |-> FALSE, tags |-> {}, created_at |-> NullTime]

\* PostForm.cleaned_data: the text fields are stripped of leading and trailing
\* whitespace (forms.CharField strips by default)
Cleaned(form) ==
    [form EXCEPT !.title = StripWs(@), !.content = StripWs(@),
                 !.excerpt = StripWs(@)]

\* the unsaved instance a PostForm builds for a create request: the form's
\* fields over the model's defaults, the author set by form_valid
NewPost(form, user) ==
    LET data == Cleaned(form)
    IN  [NullPost EXCEPT !.title = data.title, !.excerpt = data.excerpt,
                         !.content = data.content, !.status = data.status,
                         !.tags = data.tags, !.is_featured = data.is_featured,
                         !.author = user]

\* the instance of an update request: the loaded row with the form's fields
\* written over it (slug, author, published_at, view_count are no form fields)
ApplyForm(obj, form) ==
    LET data == Cleaned(form)
    IN  [obj EXCEPT !.title = data.title, !.excerpt = data.excerpt,
                    !.content = data.content, !.status = data.status,
                    !.tags = data.tags, !.is_featured = data.is_featured]

\* PostForm.is_valid(): the validators of the model fields the form shows
ValidPostForm(form) ==
    LET data == Cleaned(form)
    IN  /\ Len(data.title) >= MinTitleLen
        /\ Len(data.title) <= MaxTitleLen
        /\ Len(data.content) >= MinContentLen
        /\ Len(data.excerpt) <= MaxExcerptLen
        /\ data.status \in {"draft", "published"}
        /\ data.tags # {}

\* Post.save before super().save(): the derived fields, on the instance
\* a slug that follows the title at every save
DeriveSlugAlways(self) == slugify(self.title)

DeriveSlug(self) ==
    IF self.slug = << >> THEN slugify(self.title) ELSE self.slug

\* an excerpt derived at every save
DeriveExcerptAlways(self) ==
    Prefix(strip_tags(self.content), ExcerptChars) \o <<".", ".", ".">>

DeriveExcerpt(self) ==
    IF self.excerpt = << >> /\ self.content # << >>
    THEN Prefix(strip_tags(self.content), ExcerptChars) \o <<".", ".", ".">>
    ELSE self.excerpt

DeriveReadingTime(self) ==
    IF self.content # << >>
    THEN Max(1, PyRound(WordCount(strip_tags(self.content)), WordsPerMinute))
    ELSE self.reading_time

DerivePublishedAt(self, t) ==
    IF self.status = "published" /\ self.published_at = NullTime
    THEN t
    ELSE self.published_at

PostSave(self, t) ==
    [self EXCEPT !.slug = DeriveSlug(self),
                 !.excerpt = DeriveExcerpt(self),
                 !.reading_time = DeriveReadingTime(self),
                 !.published_at = DerivePublishedAt(self, t)]

\* Post.save stamps published_at with timezone.now()
StampsPublishedAt(self) ==
    self.status = "published" /\ self.published_at = NullTime

(***************************************************************************)
(* The store and the requests                                              *)
(***************************************************************************)

VARIABLES
    posts,      \* the Post table: id -> row
    comments,   \* the Comment table: id -> row
    likes,      \* the Like table: id -> row
    subs,       \* the NewsletterSubscription table: id -> row
    ids,        \* the next id of each table (its sequence)
    now,        \* the clock: what timezone.now() returns
    req         \* the requests: each one's position, instance and response

vars == <<posts, comments, likes, subs, ids, now, req>>

store == <<posts, comments, likes, subs, ids, now>>

Rows(table) == {table[i] : i \in DOMAIN table}

\* INSERT of a row under a fresh id, DELETE of a set of ids
Insert(table, row) == [i \in DOMAIN table \cup {row.id} |->
                          IF i = row.id THEN row ELSE table[i]]

Delete(table, gone) == [i \in DOMAIN table \ gone |-> table[i]]

\* Post.objects.filter(slug=slug): at most one row, slug being unique
PostsWithSlug(slug) == {p \in Rows(posts) : p.slug = slug}

\* the store never holds two posts of one slug
SlugNeverTaken(slug, id) == FALSE

\* slug = models.SlugField(unique=True): a row of another id has this slug
SlugTaken(slug, id) == \E p \in Rows(posts) : p.slug = slug /\ p.id # id

\* the slugs a request may address: those of the stored posts, and one of no
\* post (every slug of no post is answered alike); the routes match
\* <slug:slug>, which no empty slug satisfies
Slugs ==
    ({p.slug : p \in Rows(posts)} \ {<< >>}) \cup {<<"n","o","n","e">>}

\* the response of a request: the status code, what the handler reports, and
\* what a detail page or a JSON body shows
NoResp ==
    [code |-> 0, msg |-> "", post |-> NullPost, comments |-> << >>,
     liked |-> FALSE, like_count |-> 0, results |-> << >>]

Resp(code, msg) == [NoResp EXCEPT !.code = code, !.msg = msg]

\* the GET parameters of a search: none
NoParams == [query |-> << >>, tag |-> << >>, author |-> "", sort |-> ""]

\* a request: where its handler stands (pc), what was asked (op, user, slug,
\* email, content), what the handler holds (obj: the loaded Post instance, row: the id
\* of the loaded Like or subscription, created), its response, and two
\* observations made when it arrived: the requests already answered (after)
\* and the rows its handler is about to toggle or reactivate (before)
IdleReq ==
    [pc |-> "idle", op |-> "none", user |-> Anonymous, slug |-> << >>,
     obj |-> NullPost, row |-> 0, created |-> FALSE, email |-> << >>,
     content |-> << >>, params |-> NoParams, after |-> {}, before |-> {},
     resp |-> NoResp]

\* the request has its response
Done(op, user, slug, resp) ==
    [IdleReq EXCEPT !.pc = "done", !.op = op, !.user = user, !.slug = slug,
                    !.resp = resp]

\* the pool hands a new request to its first free worker
FirstIdle(r) ==
    /\ req[r].pc = "idle"
    /\ \A q \in DOMAIN req : q < r => req[q].pc # "idle"

\* rows ordered by -created_at (the newest first); the id orders rows of the
\* same instant
RECURSIVE NewestFirst(_)
NewestFirst(rows) ==
    IF rows = {} THEN << >>
    ELSE LET m == CHOOSE x \in rows : \A y \in rows :
                      \/ x.created_at > y.created_at
                      \/ x.created_at = y.created_at /\ x.id >= y.id
         IN  <<m>> \o NewestFirst(rows \ {m})

\* post.comments.filter(parent__isnull=True, is_approved=True)
\*     .order_by("-created_at")
ThreadView(post_id) ==
    NewestFirst({c \in Rows(comments) :
                    c.post = post_id /\ c.parent = 0 /\ c.is_approved})

\* Post.get_like_count, Post.user_has_liked
get_like_count(post_id) == Cardinality({l \in Rows(likes) : l.post = post_id})

user_has_liked(post_id, user) ==
    IF is_authenticated(user)
    THEN \E l \in Rows(likes) : l.post = post_id /\ l.user = user
    ELSE FALSE

(***************************************************************************)
(* The inputs of the requests                                              *)
(***************************************************************************)

TitleHello == <<"H","e","l","l","o"," ","W","o","r","l","d">>
\* another title of the same slug, hello-world
TitleHelloAgain == <<"h","e","l","l","o"," ","-"," ","w","o","r","l","d","!">>
TitleOther == <<"O","t","h","e","r"," ","P","o","s","t">>
\* shorter than MinTitleLen
TitleShort == <<"H","i">>

\* 30 words of plain text, 60 characters
ContentPlain == Rep(<<"w"," ">>, 30)
\* 12 words inside a paragraph tag, 67 characters
ContentMarkup ==
    <<"<","p",">">> \o Rep(<<"w","o","r","d"," ">>, 12) \o <<"<","/","p",">">>

ExcerptGiven == <<"s","u","m","m","a","r","y">>

TagWeb == <<"W","e","b">>
TagDev == <<"D","e","v">>

FormDraft ==
    [title |-> TitleHello, content |-> ContentPlain, excerpt |-> << >>,
     status |-> "draft", tags |-> {TagWeb}, is_featured |-> FALSE]
FormPublished == [FormDraft EXCEPT !.status = "published"]
FormRetitled ==
    [title |-> TitleHelloAgain, content |-> ContentMarkup,
     excerpt |-> ExcerptGiven, status |-> "published",
     tags |-> {TagWeb, TagDev}, is_featured |-> TRUE]
FormOther ==
    [title |-> TitleOther, content |-> ContentMarkup, excerpt |-> << >>,
     status |-> "draft", tags |-> {TagDev}, is_featured |-> FALSE]
FormInvalid == [FormDraft EXCEPT !.title = TitleShort]

PostForms == {FormDraft, FormPublished, FormRetitled, FormOther, FormInvalid}

\* a slug of no post
SlugNone == <<"n","o","n","e">>

(***************************************************************************)
(* Post handlers                                                           *)
(***************************************************************************)

\* every post, whoever asks
DetailQuerysetAll(user) == Rows(posts)

\* PostDetailView.get_queryset
DetailQueryset(user) ==
    IF is_authenticated(user)
    THEN {p \in Rows(posts) :
             \/ p.status = "published"
             \/ p.author = user /\ p.status = "draft"}
    ELSE {p \in Rows(posts) : p.status = "published"}

\* the context of the detail page, read after the view count is written
DetailContext(post, user) ==
    [NoResp EXCEPT !.code = 200, !.msg = "detail", !.post = post,
                   !.comments = ThreadView(post.id),
                   !.liked = user_has_liked(post.id, user),
                   !.like_count = get_like_count(post.id)]

\* a test that lets every authenticated user pass
test_func_anyone(user, post) == TRUE

\* PostUpdateView.test_func, PostDeleteView.test_func
test_func(user, post) == user = post.author

\* PostCreateView.post: LoginRequiredMixin, the form, Post.save as an INSERT
\* that the unique slug may refuse, the redirect to the new post
CreatePost(r, user, form) ==
    /\ FirstIdle(r)
    /\ UNCHANGED <<comments, likes, subs>>
    /\ IF ~is_authenticated(user)
       THEN /\ req' = [req EXCEPT ![r] =
                          Done("create", user, << >>, Resp(302, "login"))]
            /\ UNCHANGED <<posts, ids, now>>
       ELSE IF ~ValidPostForm(form)
       THEN /\ req' = [req EXCEPT ![r] =
                          Done("create", user, << >>, Resp(200, "invalid"))]
            /\ UNCHANGED <<posts, ids, now>>
       ELSE LET obj == [PostSave(NewPost(form, user), now) EXCEPT
                           !.id = ids.post, !.created_at = now]
            IN  IF SlugTaken(obj.slug, obj.id)
                THEN /\ req' = [req EXCEPT ![r] =
                                   [Done("create", user, obj.slug,
                                         Resp(500, "IntegrityError"))
                                    EXCEPT !.obj = NewPost(form, user)]]
                     /\ UNCHANGED <<posts, ids, now>>
                ELSE /\ ids.post <= MaxPosts
                     /\ now < MaxTime
                     /\ posts' = Insert(posts, obj)
                     /\ ids' = [ids EXCEPT !.post = @ + 1]
                     /\ now' = now + 1
                     /\ req' = [req EXCEPT ![r] =
                                   [Done("create", user, obj.slug,
                                         IF obj.slug = << >>
                                         THEN Resp(500, "NoReverseMatch")
                                         ELSE Resp(302, "created"))
                                    EXCEPT !.obj = NewPost(form, user)]]

\* PostUpdateView up to form.save(): LoginRequiredMixin, test_func on the
\* loaded post, the form written over the loaded instance
UpdateLoad(r, user, slug, form) ==
    /\ FirstIdle(r)
    /\ UNCHANGED store
    /\ IF ~is_authenticated(user)
       THEN req' = [req EXCEPT ![r] =
                       Done("update", user, slug, Resp(302, "login"))]
       ELSE IF PostsWithSlug(slug) = {}
       THEN req' = [req EXCEPT ![r] =
                       Done("update", user, slug, Resp(404, "not found"))]
       ELSE LET post == CHOOSE p \in PostsWithSlug(slug) : TRUE
            IN  IF ~test_func(user, post)
                THEN req' = [req EXCEPT ![r] =
                                Done("update", user, slug,
                                     Resp(403, "forbidden"))]
                ELSE IF ~ValidPostForm(form)
                THEN req' = [req EXCEPT ![r] =
                                Done("update", user, slug,
                                     Resp(200, "invalid"))]
                ELSE req' = [req EXCEPT ![r] =
                                [IdleReq EXCEPT !.pc = "update_save",
                                                !.op = "update",
                                                !.user = user,
                                                !.slug = slug,
                                                !.obj = ApplyForm(post, form)]]

\* form.save(): Post.save writes every column of the instance, as an UPDATE
\* of its row or, the row being gone, as an INSERT under the same id
UpdateSave(r) ==
    /\ req[r].pc = "update_save"
    /\ UNCHANGED <<comments, likes, subs, ids>>
    /\ LET self == req[r].obj
           saved == PostSave(self, now)
           exists == self.id \in DOMAIN posts
           obj == IF exists THEN saved ELSE [saved EXCEPT !.created_at = now]
           stamps == StampsPublishedAt(self) \/ ~exists
       IN  IF SlugTaken(obj.slug, obj.id)
           THEN /\ req' = [req EXCEPT ![r] =
                              Done("update", req[r].user, req[r].slug,
                                   Resp(500, "IntegrityError"))]
                /\ UNCHANGED <<posts, now>>
           ELSE /\ stamps => now < MaxTime
                /\ posts' = Insert(posts, obj)
                /\ now' = IF stamps THEN now + 1 ELSE now
                /\ req' = [req EXCEPT ![r] =
                              Done("update", req[r].user, req[r].slug,
                                   Resp(302, "updated"))]

\* the comments a deletion of these comments takes with it: their replies,
\* and the replies of those (Comment.parent is on_delete=CASCADE)
RECURSIVE WithReplies(_)
WithReplies(cs) ==
    LET more == {c \in DOMAIN comments : comments[c].parent \in cs} \ cs
    IN  IF more = {} THEN cs ELSE WithReplies(cs \cup more)

\* PostDeleteView.post: LoginRequiredMixin, test_func, then the delete that
\* cascades to the post's comments and likes
DeletePost(r, user, slug) ==
    /\ FirstIdle(r)
    /\ UNCHANGED <<subs, ids, now>>
    /\ IF ~is_authenticated(user)
       THEN /\ req' = [req EXCEPT ![r] =
                          Done("delete", user, slug, Resp(302, "login"))]
            /\ UNCHANGED <<posts, comments, likes>>
       ELSE IF PostsWithSlug(slug) = {}
       THEN /\ req' = [req EXCEPT ![r] =
                          Done("delete", user, slug, Resp(404, "not found"))]
            /\ UNCHANGED <<posts, comments, likes>>
       ELSE LET post == CHOOSE p \in PostsWithSlug(slug) : TRUE
            IN  IF ~test_func(user, post)
                THEN /\ req' = [req EXCEPT ![r] =
                                   Done("delete", user, slug,
                                        Resp(403, "forbidden"))]
                     /\ UNCHANGED <<posts, comments, likes>>
                ELSE /\ posts' = Delete(posts, {post.id})
                     /\ comments' = Delete(comments,
                           WithReplies({c \in DOMAIN comments :
                                           comments[c].post = post.id}))
                     /\ likes' = Delete(likes,
                           {l \in DOMAIN likes : likes[l].post = post.id})
                     /\ req' = [req EXCEPT ![r] =
                                   Done("delete", user, slug,
                                        Resp(302, "deleted"))]

\* PostDetailView.get_object: the post of this slug among those the requester
\* may see; a draft is rendered at once, a published post goes on to
\* increment_view_count with the instance loaded here
DetailLoad(r, user, slug) ==
    /\ FirstIdle(r)
    /\ UNCHANGED store
    /\ LET found == {p \in DetailQueryset(user) : p.slug = slug}
       IN  IF found = {}
           THEN req' = [req EXCEPT ![r] =
                           Done("detail", user, slug, Resp(404, "not found"))]
           ELSE LET post == CHOOSE p \in found : TRUE
                IN  IF post.status = "published"
                    THEN req' = [req EXCEPT ![r] =
                                    [IdleReq EXCEPT !.pc = "detail_save",
                                                    !.op = "detail",
                                                    !.user = user,
                                                    !.slug = slug,
                                                    !.obj = post]]
                    ELSE req' = [req EXCEPT ![r] =
                                    Done("detail", user, slug,
                                         DetailContext(post, user))]

\* Post.increment_view_count: the instance's view_count plus one, then
\* Post.save(update_fields=["view_count"]): the pipeline runs on the instance
\* and the UPDATE writes the view_count column alone
increment_view_count(self, t) ==
    PostSave([self EXCEPT !.view_count = @ + 1], t)

\* an UPDATE that writes every column of the instance
UpdateAllFields(row, self) == self

\* the UPDATE of save(update_fields=["view_count"]): the stored row with the
\* instance's view_count
UpdateFields(row, self) == [row EXCEPT !.view_count = self.view_count]

\* the rest of PostDetailView.get_context_data, for a published post
DetailSave(r) ==
    /\ req[r].pc = "detail_save"
    /\ UNCHANGED <<comments, likes, subs, ids, now>>
    /\ LET self == increment_view_count(req[r].obj, now)
       IN  IF self.id \notin DOMAIN posts
           THEN /\ req' = [req EXCEPT ![r] =
                              Done("detail", req[r].user, req[r].slug,
                                   Resp(500, "DatabaseError"))]
                /\ UNCHANGED posts
           ELSE /\ posts' = [posts EXCEPT
                                ![self.id] = UpdateFields(@, self)]
                /\ req' = [req EXCEPT ![r] =
                              Done("detail", req[r].user, req[r].slug,
                                   DetailContext(self, req[r].user))]

(***************************************************************************)
(* Like handlers: like_post and ajax_like_post, one step for each          *)
(* statement that get_or_create sends to the database                      *)
(***************************************************************************)

LikeOps == {"like", "ajax_like"}

\* the likes of the post, whoever gave them
LikeOfPost(post_id, user) == {l \in Rows(likes) : l.post = post_id}

\* no like at all
LikeOfNobody(post_id, user) == {}

\* Like.objects.get(post=post, user=user): at most one row, the pair being
\* unique
LikeOf(post_id, user) ==
    {l \in Rows(likes) : l.post = post_id /\ l.user = user}

\* the (post, user) pairs of the stored likes
LikePairs == {<<l.post, l.user>> : l \in Rows(likes)}

\* the requests that have their response
Answered == {q \in DOMAIN req : req[q].pc = "done"}

\* the response of a toggle: like_post redirects to the post with a message,
\* ajax_like_post answers liked, message and post.get_like_count()
LikeResponse(op, post_id, liked, table) ==
    [NoResp EXCEPT
        !.code = IF op = "like" THEN 302 ELSE 200,
        !.msg = IF liked THEN "liked" ELSE "unliked",
        !.liked = liked,
        !.like_count =
            IF op = "like" THEN 0
            ELSE Cardinality({l \in DOMAIN table : table[l].post = post_id})]

\* login_required, get_object_or_404(Post, slug=slug), and the get of
\* get_or_create. The post lookup reads a table no like handler writes
LikeGet(r, op, user, slug) ==
    /\ FirstIdle(r)
    /\ UNCHANGED store
    /\ IF ~is_authenticated(user)
       THEN req' = [req EXCEPT ![r] =
                       [Done(op, user, slug, Resp(302, "login")) EXCEPT
                           !.after = Answered, !.before = LikePairs]]
       ELSE IF PostsWithSlug(slug) = {}
       THEN req' = [req EXCEPT ![r] =
                       [Done(op, user, slug, Resp(404, "not found")) EXCEPT
                           !.after = Answered, !.before = LikePairs]]
       ELSE LET post == CHOOSE p \in PostsWithSlug(slug) : TRUE
                found == LikeOf(post.id, user)
            IN  req' = [req EXCEPT ![r] =
                    [IdleReq EXCEPT
                        !.pc = IF found = {} THEN "like_create"
                               ELSE "like_delete",
                        !.op = op, !.user = user, !.slug = slug,
                        !.obj = post,
                        !.row = IF found = {} THEN 0
                                ELSE (CHOOSE l \in found : TRUE).id,
                        !.after = Answered, !.before = LikePairs]]

\* the create of get_or_create: the INSERT, which unique_together or the
\* foreign key to a post that is gone refuses with IntegrityError
LikeCreate(r) ==
    /\ req[r].pc = "like_create"
    /\ UNCHANGED <<posts, comments, subs, now>>
    /\ LET post == req[r].obj
           user == req[r].user
       IN  IF post.id \notin DOMAIN posts
           THEN /\ req' = [req EXCEPT ![r] =
                              [@ EXCEPT !.pc = "done",
                                        !.resp = Resp(500, "IntegrityError")]]
                /\ UNCHANGED <<likes, ids>>
           ELSE IF \E l \in Rows(likes) : l.post = post.id /\ l.user = user
           THEN /\ req' = [req EXCEPT ![r] = [@ EXCEPT !.pc = "like_reget"]]
                /\ UNCHANGED <<likes, ids>>
           ELSE /\ ids.like <= MaxLikes
                /\ likes' = Insert(likes, [id |-> ids.like, post |-> post.id,
                                           user |-> user])
                /\ ids' = [ids EXCEPT !.like = @ + 1]
                /\ req' = [req EXCEPT ![r] =
                              [@ EXCEPT
                                  !.pc = "done",
                                  !.created = TRUE,
                                  !.row = ids.like,
                                  !.resp = LikeResponse(req[r].op, post.id,
                                                        TRUE, likes')]]

\* get_or_create after the IntegrityError: the get once more, and the error
\* raised again if the row is not there
LikeReget(r) ==
    /\ req[r].pc = "like_reget"
    /\ UNCHANGED store
    /\ LET found == LikeOf(req[r].obj.id, req[r].user)
       IN  IF found = {}
           THEN req' = [req EXCEPT ![r] =
                           [@ EXCEPT !.pc = "done",
                                     !.resp = Resp(500, "IntegrityError")]]
           ELSE req' = [req EXCEPT ![r] =
                           [@ EXCEPT !.pc = "like_delete",
                                     !.row = (CHOOSE l \in found : TRUE).id]]

\* not created: like.delete(), a DELETE by primary key that a row already
\* gone lets pass
LikeDelete(r) ==
    /\ req[r].pc = "like_delete"
    /\ UNCHANGED <<posts, comments, subs, ids, now>>
    /\ likes' = Delete(likes, {req[r].row})
    /\ req' = [req EXCEPT ![r] =
                  [@ EXCEPT !.pc = "done",
                            !.resp = LikeResponse(req[r].op, req[r].obj.id,
                                                  FALSE, likes')]]

(***************************************************************************)
(* Newsletter handler: subscribe_newsletter, one step for each statement   *)
(* it sends to the database                                                *)
(***************************************************************************)

\* EmailField: one "@" with text before it and a dotted domain after it
IsEmail(s) ==
    \E i \in 2..(Len(s) - 3) :
        /\ s[i] = "@"
        /\ \A j \in 1..Len(s) : s[j] = "@" => j = i
        /\ \E d \in (i + 2)..(Len(s) - 1) : s[d] = "."
        /\ \A j \in 1..Len(s) : s[j] \notin Whitespace

\* NewsletterSubscription.objects.get(email=email): at most one row, email
\* being unique
SubscriptionOf(email) == {x \in Rows(subs) : x.email = email}

\* the (email, is_active) pairs of the stored subscriptions
SubPairs == {<<x.email, x.is_active>> : x \in Rows(subs)}

SubscribeSuccess == Resp(200, "success")
SubscribeErrors == Resp(200, "errors")

\* form.is_valid(): the email field is cleaned, and the ModelForm validates
\* that no subscription has this email (email is unique=True)
ValidSubscriptionForm(email) == IsEmail(email) /\ SubscriptionOf(email) = {}

\* NewsletterSubscriptionForm(request.POST).is_valid()
SubscribeValidate(r, email) ==
    /\ FirstIdle(r)
    /\ UNCHANGED store
    /\ IF ~ValidSubscriptionForm(email)
       THEN req' = [req EXCEPT ![r] =
                       [IdleReq EXCEPT !.pc = "done", !.op = "subscribe",
                                       !.email = email, !.after = Answered,
                                       !.before = SubPairs,
                                       !.resp = SubscribeErrors]]
       ELSE req' = [req EXCEPT ![r] =
                       [IdleReq EXCEPT !.pc = "sub_get", !.op = "subscribe",
                                       !.email = email, !.after = Answered,
                                       !.before = SubPairs]]

\* the get of get_or_create
SubscribeGet(r) ==
    /\ req[r].pc = "sub_get"
    /\ UNCHANGED store
    /\ LET found == SubscriptionOf(req[r].email)
       IN  IF found = {}
           THEN req' = [req EXCEPT ![r] = [@ EXCEPT !.pc = "sub_create"]]
           ELSE req' = [req EXCEPT ![r] =
                           [@ EXCEPT !.pc = "sub_save",
                                     !.row = (CHOOSE x \in found : TRUE).id]]

\* the create of get_or_create, with defaults is_active=True: the INSERT,
\* which the unique email refuses with IntegrityError
SubscribeCreate(r) ==
    /\ req[r].pc = "sub_create"
    /\ UNCHANGED <<posts, comments, likes, now>>
    /\ IF SubscriptionOf(req[r].email) # {}
       THEN /\ req' = [req EXCEPT ![r] = [@ EXCEPT !.pc = "sub_reget"]]
            /\ UNCHANGED <<subs, ids>>
       ELSE /\ ids.sub <= MaxSubs
            /\ subs' = Insert(subs, [id |-> ids.sub, email |-> req[r].email,
                                     is_active |-> TRUE])
            /\ ids' = [ids EXCEPT !.sub = @ + 1]
            /\ req' = [req EXCEPT ![r] =
                          [@ EXCEPT !.pc = "done", !.created = TRUE,
                                    !.row = ids.sub,
                                    !.resp = SubscribeSuccess]]

\* get_or_create after the IntegrityError: the get once more
SubscribeReget(r) ==
    /\ req[r].pc = "sub_reget"
    /\ UNCHANGED store
    /\ LET found == SubscriptionOf(req[r].email)
       IN  IF found = {}
           THEN req' = [req EXCEPT ![r] =
                           [@ EXCEPT !.pc = "done",
                                     !.resp = Resp(500, "IntegrityError")]]
           ELSE req' = [req EXCEPT ![r] =
                           [@ EXCEPT !.pc = "sub_save",
                                     !.row = (CHOOSE x \in found : TRUE).id]]

\* not created: subscription.is_active = True; subscription.save()
SubscribeSave(r) ==
    /\ req[r].pc = "sub_save"
    /\ UNCHANGED <<posts, comments, likes, ids, now>>
    /\ subs' = Insert(subs, [id |-> req[r].row, email |-> req[r].email,
                             is_active |-> TRUE])
    /\ req' = [req EXCEPT ![r] =
                  [@ EXCEPT !.pc = "done", !.resp = SubscribeSuccess]]

(***************************************************************************)
(* Comment handler: add_comment                                            *)
(***************************************************************************)

\* a form that takes every content
ValidCommentFormAny(content) == TRUE

\* CommentForm.is_valid(): the content, stripped of leading and trailing
\* whitespace, is required and passes MinLengthValidator(10)
ValidCommentForm(content) ==
    /\ StripWs(content) # << >>
    /\ Len(StripWs(content)) >= MinCommentLen

\* login_required, get_object_or_404(Post, slug=slug), the form, and
\* get_object_or_404(Comment, id=parent_id) when a parent_id is posted
\* (parent_id 0 stands for none)
AddCommentLoad(r, user, slug, content, parent_id) ==
    /\ FirstIdle(r)
    /\ UNCHANGED store
    /\ LET answer(resp) ==
               [Done("comment", user, slug, resp) EXCEPT
                   !.content = content, !.row = parent_id]
       IN  IF ~is_authenticated(user)
           THEN req' = [req EXCEPT ![r] = answer(Resp(302, "login"))]
           ELSE IF PostsWithSlug(slug) = {}
           THEN req' = [req EXCEPT ![r] = answer(Resp(404, "not found"))]
           ELSE IF ~ValidCommentForm(content)
           THEN req' = [req EXCEPT ![r] = answer(Resp(302, "invalid"))]
           ELSE IF parent_id # 0 /\ parent_id \notin DOMAIN comments
           THEN req' = [req EXCEPT ![r] = answer(Resp(404, "not found"))]
           ELSE req' = [req EXCEPT ![r] =
                           [IdleReq EXCEPT
                               !.pc = "comment_save", !.op = "comment",
                               !.user = user, !.slug = slug,
                               !.obj = CHOOSE p \in PostsWithSlug(slug) : TRUE,
                               !.content = content, !.row = parent_id]]

\* comment.save(): the INSERT, which the foreign keys refuse when the post or
\* the parent is gone; is_approved takes its default
AddCommentSave(r) ==
    /\ req[r].pc = "comment_save"
    /\ UNCHANGED <<posts, likes, subs>>
    /\ IF \/ req[r].obj.id \notin DOMAIN posts
          \/ req[r].row # 0 /\ req[r].row \notin DOMAIN comments
       THEN /\ req' = [req EXCEPT ![r] =
                          [@ EXCEPT !.pc = "done",
                                    !.resp = Resp(500, "IntegrityError")]]
            /\ UNCHANGED <<comments, ids, now>>
       ELSE /\ comments' = Insert(comments,
                              [id |-> ids.comment, post |-> req[r].obj.id,
                               user |-> req[r].user,
                               content |-> StripWs(req[r].content),
                               parent |-> req[r].row, is_approved |-> TRUE,
                               created_at |-> now])
            /\ ids' = [ids EXCEPT !.comment = @ + 1]
            /\ now' = now + 1
            /\ req' = [req EXCEPT ![r] =
                          [@ EXCEPT !.pc = "done", !.created = TRUE,
                                    !.resp = Resp(302, "commented")]]

\* the response is sent and the worker is free for the next request
Reply(r) ==
    /\ req[r].pc = "done"
    /\ req' = [req EXCEPT ![r] = IdleReq]
    /\ UNCHANGED store

(***************************************************************************)
(* The public read models. Each is the set of rows its queryset selects;   *)
(* an empty parameter is a filter the request leaves out                   *)
(***************************************************************************)

Published == {p \in Rows(posts) : p.status = "published"}

\* Q(title__icontains) | Q(content__icontains) | Q(excerpt__icontains)
\* | Q(tags__name__icontains), then distinct()
MatchesQuery(p, query) ==
    \/ IContains(p.title, query)
    \/ IContains(p.content, query)
    \/ IContains(p.excerpt, query)
    \/ \E t \in p.tags : IContains(t, query)

\* filter(tags__slug=tag_slug)
HasTagSlug(p, tag_slug) == \E t \in p.tags : slugify(t) = tag_slug

\* PostListView.get_queryset
PostListQueryset(search_query, tag_slug, author) ==
    {p \in Published :
        /\ search_query # << >> => MatchesQuery(p, search_query)
        /\ tag_slug # << >> => HasTagSlug(p, tag_slug)
        /\ author # "" => p.author = author}

\* posts_by_tag
posts_by_tag(tag_slug) == {p \in Published : HasTagSlug(p, tag_slug)}

\* advanced_search: the rows it selects, whatever the sort
advanced_search(query, tag, author) ==
    {p \in Published :
        /\ query # << >> => MatchesQuery(p, query)
        /\ tag # << >> => HasTagSlug(p, tag)
        /\ author # "" => p.author = author}

\* user_posts
user_posts(username) == {p \in Published : p.author = username}

\* trending_posts: the published posts created in the last TrendingDays days,
\* a day being one tick of the clock
trending_posts == {p \in Published : p.created_at >= now - TrendingDays}

\* featured_posts
featured_posts == {p \in Published : p.is_featured}

\* rows in the order of Post.Meta.ordering, -created_at
PostsNewestFirst(rows) == NewestFirst(rows)

\* api_posts: the first ApiListLimit published posts
api_posts == Prefix(PostsNewestFirst(Published), ApiListLimit)

\* api_post_detail: get_object_or_404(Post, slug=slug, status="published")
api_post_detail(slug) == {p \in Published : p.slug = slug}

\* the parameters the read models are asked with
SearchQueries == {<< >>, <<"W","O","R","D">>}
TagSlugs == {<< >>, slugify(TagDev)}
AuthorNames == {"", "alice"}

(***************************************************************************)
(* Search handlers: PostListView and advanced_search as the lists their    *)
(* queries return, a row for each row of the joins                         *)
(***************************************************************************)

\* the rows of the LEFT OUTER JOIN to a post's tags: one for each tag, and one
\* of no tag for a post without tags
TagRows(p) == IF p.tags = {} THEN {<< >>} ELSE p.tags

\* the rows of a post that pass Q(title__icontains) | Q(content__icontains)
\* | Q(excerpt__icontains) | Q(tags__name__icontains); without a term there is
\* no join and the post is its one row
QueryRows(p, query) ==
    IF query = << >> THEN 1
    ELSE Cardinality({t \in TagRows(p) :
                         \/ IContains(p.title, query)
                         \/ IContains(p.content, query)
                         \/ IContains(p.excerpt, query)
                         \/ IContains(t, query)})

\* the rows filter(tags__slug=tag) leaves of a post, a join of its own
TagFilterRows(p, tag) ==
    IF tag = << >> THEN 1
    ELSE Cardinality({t \in p.tags : slugify(t) = tag})

\* the rows of a post in the joined query
JoinCount(p, query, tag) == QueryRows(p, query) * TagFilterRows(p, tag)

\* the published posts with a row in the joined query, of the author asked for
Selected(query, tag, author) ==
    {p \in Published :
        /\ JoinCount(p, query, tag) > 0
        /\ author # "" => p.author = author}

\* ORDER BY -key, -created_at
RECURSIVE OrderBy(_, _)
OrderBy(rows, key) ==
    IF rows = {} THEN << >>
    ELSE LET m == CHOOSE x \in rows : \A y \in rows :
                      \/ key[x.id] > key[y.id]
                      \/ /\ key[x.id] = key[y.id]
                         /\ \/ x.created_at > y.created_at
                            \/ x.created_at = y.created_at /\ x.id >= y.id
         IN  <<m>> \o OrderBy(rows \ {m}, key)

\* each post as many times as it has rows
RECURSIVE Expand(_, _)
Expand(ps, mult) ==
    IF ps = << >> THEN << >>
    ELSE [i \in 1..mult[Head(ps).id] |-> Head(ps)] \o Expand(Tail(ps), mult)

\* a query without DISTINCT
Undistinct(ps) == ps

\* SELECT DISTINCT: a row equal to an earlier one is dropped
RECURSIVE Distinct(_)
Distinct(ps) ==
    IF ps = << >> THEN << >>
    ELSE LET front == Distinct(SubSeq(ps, 1, Len(ps) - 1))
             last == ps[Len(ps)]
         IN  IF \E i \in DOMAIN front : front[i] = last
             THEN front ELSE Append(front, last)

Ids(ps) == [i \in DOMAIN ps |-> ps[i].id]

\* PostListView.get_queryset, in Post.Meta.ordering
PostListResults(search_query, tag_slug, author) ==
    LET mult == [p \in DOMAIN posts |->
                    JoinCount(posts[p], search_query, tag_slug)]
        rows == Expand(OrderBy(Selected(search_query, tag_slug, author),
                               [p \in DOMAIN posts |-> 0]),
                       mult)
    IN  Ids(IF search_query # << >> THEN Distinct(rows) ELSE rows)

\* advanced_search: the annotations count the rows of the joined query that
\* carry a like (a comment), GROUP BY leaving one row for each post
AdvancedSearchResults(query, tag, author, sort) ==
    LET mult == [p \in DOMAIN posts |-> JoinCount(posts[p], query, tag)]
        found == Selected(query, tag, author)
        like_count == [p \in DOMAIN posts |->
            mult[p] * Cardinality({l \in DOMAIN likes : likes[l].post = p})]
        comment_count == [p \in DOMAIN posts |->
            mult[p] * Cardinality({c \in DOMAIN comments :
                                      comments[c].post = p})]
        view_count == [p \in DOMAIN posts |-> posts[p].view_count]
        rows == IF sort = "popular" THEN OrderBy(found, like_count)
                ELSE IF sort = "comments" THEN OrderBy(found, comment_count)
                ELSE IF sort = "views"
                THEN Expand(OrderBy(found, view_count), mult)
                ELSE Expand(OrderBy(found, [p \in DOMAIN posts |-> 0]), mult)
    IN  Ids(IF query # << >> THEN Distinct(rows) ELSE rows)

\* a GET of the post list
PostList(r, search_query, tag_slug, author) ==
    /\ FirstIdle(r)
    /\ UNCHANGED store
    /\ req' = [req EXCEPT ![r] =
          [Done("list", Anonymous, << >>, Resp(200, "list")) EXCEPT
              !.params = [query |-> search_query, tag |-> tag_slug,
                          author |-> author, sort |-> "newest"],
              !.resp.results =
                  PostListResults(search_query, tag_slug, author)]]

\* a GET of the advanced search
AdvancedSearch(r, query, tag, author, sort) ==
    /\ FirstIdle(r)
    /\ UNCHANGED store
    /\ req' = [req EXCEPT ![r] =
          [Done("search", Anonymous, << >>, Resp(200, "search")) EXCEPT
              !.params = [query |-> query, tag |-> tag, author |-> author,
                          sort |-> sort],
              !.resp.results =
                  AdvancedSearchResults(query, tag, author, sort)]]

(***************************************************************************)
(* The content specification: posts are created, edited, viewed and        *)
(* deleted by requests that interleave                                     *)
(***************************************************************************)

NoRows == [i \in {} |-> NullPost]

\* a store with one published post of alice and its thread: two comments, a
\* reply to the first, and a comment the admin has disapproved
SeedPost ==
    [PostSave(NewPost(FormPublished, "alice"), 1) EXCEPT
        !.id = 1, !.created_at = 1]

SeedComment(id, user, parent, approved, t) ==
    [id |-> id, post |-> 1, user |-> user, content |-> Rep(<<"c">>, 12),
     parent |-> parent, is_approved |-> approved, created_at |-> t]

SeedComments ==
    [i \in 1..4 |->
        CASE i = 1 -> SeedComment(1, "bob", 0, TRUE, 2)
          [] i = 2 -> SeedComment(2, "alice", 0, TRUE, 3)
          [] i = 3 -> SeedComment(3, "bob", 1, TRUE, 4)
          [] i = 4 -> SeedComment(4, "alice", 0, FALSE, 5)]

SeedLike == [id |-> 1, post |-> 1, user |-> "bob"]

InitSeeded ==
    /\ posts = Insert(NoRows, SeedPost)
    /\ comments = SeedComments
    /\ likes = Insert(NoRows, SeedLike)
    /\ ids = [post |-> 2, comment |-> 5, like |-> 2, sub |-> 1]
    /\ now = 6

Init ==
    /\ InitSeeded
    /\ subs = NoRows
    /\ req = [r \in 1..MaxRequests |-> IdleReq]

\* a response is delivered before the server takes its next step: what a
\* request answered is read off the state its last step leaves
Delivered == \A q \in DOMAIN req : req[q].pc # "done"

Create(r) ==
    /\ Delivered
    /\ \E user \in Requesters, form \in PostForms : CreatePost(r, user, form)

Update(r) ==
    /\ Delivered
    /\ \/ \E user \in Requesters, slug \in Slugs, form \in PostForms :
             UpdateLoad(r, user, slug, form)
       \/ UpdateSave(r)

DeleteIt(r) ==
    /\ Delivered
    /\ \E user \in Requesters, slug \in Slugs : DeletePost(r, user, slug)

\* no post of this slug has MaxViews views yet
ViewsBelowCap(slug) == \A p \in PostsWithSlug(slug) : p.view_count < MaxViews

Detail(r) ==
    /\ Delivered
    /\ \/ \E user \in Requesters, slug \in Slugs :
             ViewsBelowCap(slug) /\ DetailLoad(r, user, slug)
       \/ DetailSave(r)

Next ==
    \E r \in 1..MaxRequests :
        \/ Create(r)
        \/ Update(r)
        \/ DeleteIt(r)
        \/ Detail(r)
        \/ Reply(r)

Spec == Init /\ [][Next]_vars

(***************************************************************************)
(* The editing specification: edit and detail requests interleave on a     *)
(* post that starts as a draft                                             *)
(***************************************************************************)

SeedDraft ==
    [PostSave(NewPost(FormDraft, "alice"), 1) EXCEPT
        !.id = 1, !.created_at = 1]

InitEdit ==
    /\ posts = Insert(NoRows, SeedDraft)
    /\ comments = NoRows
    /\ likes = NoRows
    /\ subs = NoRows
    /\ ids = [post |-> 2, comment |-> 1, like |-> 1, sub |-> 1]
    /\ now = 2
    /\ req = [r \in 1..MaxRequests |-> IdleReq]

NextEdit ==
    \E r \in 1..MaxRequests :
        \/ Update(r)
        \/ Detail(r)
        \/ Reply(r)

SpecEdit == InitEdit /\ [][NextEdit]_vars

(***************************************************************************)
(* Properties of the content specification                                 *)
(***************************************************************************)

\* the fields of a post that PostForm edits
Editable(p) ==
    [title |-> p.title, content |-> p.content, excerpt |-> p.excerpt,
     status |-> p.status, tags |-> p.tags, is_featured |-> p.is_featured]

\* request r gets its response in this step
Answers(r) == req[r].pc # "done" /\ req'[r].pc = "done"

\* request r arrives in this step
Arrives(r) == req[r].pc = "idle" /\ req'[r].pc # "idle"

\* C5: published_at of a post is null until the first save made with status
\* published, is non-null after that save, and from then on no operation
\* changes it or clears it.
C5_PublishedAtSetOnce ==
    [][\A p \in DOMAIN posts' :
          (p \in DOMAIN posts \/ p = ids.post) =>
              LET was == IF p \in DOMAIN posts
                         THEN posts[p].published_at ELSE NullTime
                  saved == p \notin DOMAIN posts \/ posts'[p] # posts[p]
              IN  /\ was # NullTime => posts'[p].published_at = was
                  /\ (was = NullTime /\ posts'[p].published_at # NullTime)
                         => posts'[p].status = "published"
                  /\ (saved /\ posts'[p].status = "published")
                         => posts'[p].published_at # NullTime]_vars

\* no two posts have the same slug
UniqueSlugs ==
    \A p, q \in Rows(posts) : p.id # q.id => p.slug # q.slug

\* a create request whose derived slug is that of a stored post is answered
\* with the uniqueness error and leaves the store as it was
CollidingCreateRefused ==
    \A r \in DOMAIN req :
        (/\ Arrives(r)
         /\ req'[r].op = "create"
         /\ req'[r].resp.msg \notin {"login", "invalid"}
         /\ PostsWithSlug(req'[r].slug) # {})
        => /\ req'[r].resp = Resp(500, "IntegrityError")
           /\ UNCHANGED store

\* C6: no two posts ever share a slug, and a create request whose derived
\* slug collides with an existing post's slug fails with a uniqueness error
\* and leaves the store unchanged.
C6_SlugUnique == []UniqueSlugs /\ [][CollidingCreateRefused]_vars

C6_Witness ==
    \E r \in DOMAIN req :
        /\ req[r].op = "create"
        /\ req[r].resp = Resp(500, "IntegrityError")
        /\ PostsWithSlug(req[r].slug) # {}

\* an update or delete request of an authenticated user who is not the author
\* of the post it addresses is answered 403 and changes nothing
NonAuthorRefused ==
    \A r \in DOMAIN req :
        (/\ Arrives(r)
         /\ req'[r].op \in {"update", "delete"}
         /\ is_authenticated(req'[r].user)
         /\ \E p \in PostsWithSlug(req'[r].slug) : p.author # req'[r].user)
        => /\ req'[r].resp = Resp(403, "forbidden")
           /\ UNCHANGED store

\* whatever edits or removes a post is a request of its author
OnlyAuthorWrites ==
    \A p \in DOMAIN posts :
        /\ p \in DOMAIN posts' => posts'[p].author = posts[p].author
        /\ (p \in DOMAIN posts' /\ Editable(posts'[p]) # Editable(posts[p]))
              => \E r \in DOMAIN req :
                    /\ req[r].pc = "update_save"
                    /\ Answers(r)
                    /\ req[r].user = posts[p].author
        /\ p \notin DOMAIN posts'
              => \E r \in DOMAIN req :
                    /\ Answers(r)
                    /\ req'[r].op = "delete"
                    /\ req'[r].user = posts[p].author

\* C7: an update or delete attempted by a user who is not the post's author
\* is refused with a 403 and leaves the post, its comments and its likes
\* unchanged; only the author's requests edit or delete a post, and the
\* author of a post never changes.
C7_OnlyAuthorEdits == [][NonAuthorRefused /\ OnlyAuthorWrites]_vars

C7_Witness ==
    \E r \in DOMAIN req :
        /\ req[r].op \in {"update", "delete"}
        /\ req[r].resp = Resp(403, "forbidden")
        /\ \E p \in PostsWithSlug(req[r].slug) :
              /\ p.author # req[r].user
              /\ \E c \in Rows(comments) : c.post = p.id
              /\ \E l \in Rows(likes) : l.post = p.id

\* the detail page shows a draft to nobody but its author
DraftShownToAuthorOnly ==
    \A r \in DOMAIN req :
        (/\ req[r].op = "detail"
         /\ req[r].resp.code = 200
         /\ req[r].resp.post.status = "draft")
        => /\ is_authenticated(req[r].user)
           /\ req[r].user = req[r].resp.post.author

\* a detail request for a draft of somebody else is answered not-found
DraftOfAnotherNotFound ==
    \A r \in DOMAIN req :
        (/\ Arrives(r)
         /\ req'[r].op = "detail"
         /\ \E p \in PostsWithSlug(req'[r].slug) :
               p.status = "draft" /\ p.author # req'[r].user)
        => req'[r].resp = Resp(404, "not found")

\* every public read model selects published posts only
ReadModelsPublishedOnly ==
    /\ \A q \in SearchQueries, t \in TagSlugs, a \in AuthorNames :
          /\ \A p \in PostListQueryset(q, t, a) : p.status = "published"
          /\ \A p \in advanced_search(q, t, a) : p.status = "published"
    /\ \A t \in TagSlugs : \A p \in posts_by_tag(t) : p.status = "published"
    /\ \A a \in Users : \A p \in user_posts(a) : p.status = "published"
    /\ \A p \in trending_posts : p.status = "published"
    /\ \A p \in featured_posts : p.status = "published"
    /\ \A i \in DOMAIN api_posts : api_posts[i].status = "published"
    /\ \A slug \in Slugs :
          \A p \in api_post_detail(slug) : p.status = "published"

\* C8: the detail operation returns a draft only to its authenticated
\* author, anybody else gets not-found for it, and the post list, tag
\* listing, search, user posts, trending, featured and the JSON list and
\* detail return published posts only.
C8_DraftsHidden ==
    /\ [](DraftShownToAuthorOnly /\ ReadModelsPublishedOnly)
    /\ [][DraftOfAnotherNotFound]_vars

C8_Witness ==
    \E r \in DOMAIN req :
        /\ req[r].op = "detail"
        /\ req[r].resp = Resp(404, "not found")
        /\ \E p \in PostsWithSlug(req[r].slug) :
              p.status = "draft" /\ p.author # req[r].user
        /\ Published # {}

\* C10: the comment thread shown for a post is exactly its top-level approved
\* comments, ordered by creation time ascending.
C10_ThreadOldestFirst ==
    \A r \in DOMAIN req :
        (req[r].pc = "done" /\ req[r].op = "detail" /\ req[r].resp.code = 200)
        => LET shown == req[r].resp.comments
               thread == {c \in Rows(comments) :
                             /\ c.post = req[r].resp.post.id
                             /\ c.parent = 0
                             /\ c.is_approved}
           IN  /\ {shown[i] : i \in DOMAIN shown} = thread
               /\ Len(shown) = Cardinality(thread)
               /\ \A i, j \in DOMAIN shown :
                     i < j => shown[i].created_at <= shown[j].created_at

(***************************************************************************)
(* The viewing specification: MaxViewers detail requests, each sent once,  *)
(* interleave on the seeded store. Their responses stay in req             *)
(***************************************************************************)

InitViews ==
    /\ InitSeeded
    /\ subs = NoRows
    /\ req = [r \in 1..MaxViewers |-> IdleReq]

NextViews ==
    \E r \in 1..MaxViewers :
        \/ \E user \in Requesters, slug \in Slugs : DetailLoad(r, user, slug)
        \/ DetailSave(r)

SpecViews == InitViews /\ [][NextViews]_vars

\* the detail requests that were answered with the page of post p
Viewed(p) ==
    {r \in DOMAIN req :
        /\ req[r].pc = "done"
        /\ req[r].op = "detail"
        /\ req[r].resp.code = 200
        /\ req[r].resp.post.id = p}

\* no request is between its steps
Quiescent == \A r \in DOMAIN req : req[r].pc \in {"idle", "done"}

\* C1: N completed detail views of one published post, in whatever
\* interleaving, leave its view_count N higher than it was.
C1_EveryViewCounted ==
    Quiescent =>
        \A p \in DOMAIN posts :
            posts[p].view_count = SeedPost.view_count + Cardinality(Viewed(p))

(***************************************************************************)
(* The liking specification: MaxLikers toggle requests, each sent once,    *)
(* interleave on the seeded post, which nobody likes yet                   *)
(***************************************************************************)

InitLikes ==
    /\ posts = Insert(NoRows, SeedPost)
    /\ comments = NoRows
    /\ likes = NoRows
    /\ subs = NoRows
    /\ ids = [post |-> 2, comment |-> 1, like |-> 1, sub |-> 1]
    /\ now = 2
    /\ req = [r \in 1..MaxLikers |-> IdleReq]

NextLikes ==
    \E r \in 1..MaxLikers :
        \/ \E op \in LikeOps, user \in Requesters, slug \in Slugs :
              LikeGet(r, op, user, slug)
        \/ LikeCreate(r)
        \/ LikeReget(r)
        \/ LikeDelete(r)

SpecLikes == InitLikes /\ [][NextLikes]_vars

\* request r is an answered toggle of user on the post of this id
ToggleDone(r, user, post_id) ==
    /\ req[r].pc = "done"
    /\ req[r].op \in LikeOps
    /\ req[r].user = user
    /\ req[r].obj.id = post_id

\* the requests other than these two either have not been sent, or were
\* answered before the first of the two arrived, or toggle nothing
NoOtherToggle(r1, r2) ==
    \A q \in DOMAIN req \ {r1, r2} :
        \/ req[q].pc = "idle"
        \/ q \in req[r1].after /\ q \in req[r2].after
        \/ req[q].pc = "done" /\ req[q].resp.code \in {302, 404}
              /\ req[q].resp.msg \in {"login", "not found"}

\* C2: at any time the store holds at most one Like row for a (post, user)
\* pair, and no toggle ends in an unhandled error, however toggles of the
\* same user on the same post interleave.
C2_ToggleSafe ==
    /\ \A l, m \in Rows(likes) :
          (l.post = m.post /\ l.user = m.user) => l.id = m.id
    /\ \A r \in DOMAIN req :
          (req[r].pc = "done" /\ req[r].op \in LikeOps)
              => req[r].resp.code # 500

\* C3: two distinct users who have not liked a post toggle it, overlapping
\* or not: afterwards each has exactly one Like row on it and its like count
\* is 2 higher.
C3_TwoUsersBothLike ==
    \A r1, r2 \in DOMAIN req : \A u1, u2 \in Users : \A p \in DOMAIN posts :
        (/\ r1 < r2
         /\ u1 # u2
         /\ ToggleDone(r1, u1, p)
         /\ ToggleDone(r2, u2, p)
         /\ NoOtherToggle(r1, r2)
         /\ <<p, u1>> \notin req[r1].before
         /\ <<p, u2>> \notin req[r1].before)
        => /\ Cardinality(LikeOf(p, u1)) = 1
           /\ Cardinality(LikeOf(p, u2)) = 1
           /\ get_like_count(p) =
                 Cardinality({x \in req[r1].before : x[1] = p}) + 2

\* two toggles of distinct users that overlap have both been answered
C3_Witness ==
    \E r1, r2 \in DOMAIN req : \E u1, u2 \in Users : \E p \in DOMAIN posts :
        /\ r1 < r2
        /\ u1 # u2
        /\ ToggleDone(r1, u1, p)
        /\ ToggleDone(r2, u2, p)
        /\ NoOtherToggle(r1, r2)
        /\ <<p, u1>> \notin req[r1].before
        /\ <<p, u2>> \notin req[r1].before
        /\ r1 \notin req[r2].after
        /\ get_like_count(p) = 2

\* C4: two toggles of one user on one post, the second sent after the first
\* was answered and no other toggle between them, leave the Like rows of the
\* post as they were; the first answers liked and the second unliked if the
\* user had not liked the post, and the other way round if the user had.
C4_ToggleTwiceRestores ==
    \A r1, r2 \in DOMAIN req : \A u \in Users : \A p \in DOMAIN posts :
        (/\ ToggleDone(r1, u, p)
         /\ ToggleDone(r2, u, p)
         /\ r1 \in req[r2].after
         /\ \A q \in DOMAIN req \ {r1, r2} :
               \/ req[q].pc = "idle"
               \/ q \in req[r1].after
               \/ req[q].pc = "done" /\ req[q].resp.msg \in {"login", "not found"})
        => LET had == <<p, u>> \in req[r1].before
           IN  /\ {x \in LikePairs : x[1] = p}
                     = {x \in req[r1].before : x[1] = p}
               /\ req[r1].resp.liked = ~had
               /\ req[r1].resp.msg = IF had THEN "unliked" ELSE "liked"
               /\ req[r1].created = ~had
               /\ req[r2].resp.liked = had
               /\ req[r2].resp.msg = IF had THEN "liked" ELSE "unliked"
               /\ req[r2].created = had

\* a user who liked the post has toggled twice more, one toggle after the
\* other
C4_Witness ==
    \E r1, r2 \in DOMAIN req : \E u \in Users : \E p \in DOMAIN posts :
        /\ ToggleDone(r1, u, p)
        /\ ToggleDone(r2, u, p)
        /\ r1 \in req[r2].after
        /\ req[r1].after # {}
        /\ <<p, u>> \in req[r1].before
        /\ req[r2].resp.msg = "liked"

(***************************************************************************)
(* The newsletter specification: MaxSubscribers subscribe requests, each   *)
(* sent once, interleave on a store that holds no subscription, an active  *)
(* one, or one that was deactivated                                        *)
(***************************************************************************)

EmailAda == <<"a","@","b",".","c">>
EmailBea == <<"b","@","b",".","c">>
\* no email address
EmailBad == <<"a","b",".","c">>
Emails == {EmailAda, EmailBea, EmailBad}

\* is_active is a column the subscribe handler only ever sets; a FALSE in it
\* was written to the table from outside this code
SeedSubscription(active) ==
    [id |-> 1, email |-> EmailAda, is_active |-> active]

InitNews ==
    /\ posts = NoRows
    /\ comments = NoRows
    /\ likes = NoRows
    /\ now = 1
    /\ \/ /\ subs = NoRows
          /\ ids = [post |-> 1, comment |-> 1, like |-> 1, sub |-> 1]
       \/ /\ \E active \in BOOLEAN :
                subs = Insert(NoRows, SeedSubscription(active))
          /\ ids = [post |-> 1, comment |-> 1, like |-> 1, sub |-> 2]
    /\ req = [r \in 1..MaxSubscribers |-> IdleReq]

NextNews ==
    \E r \in 1..MaxSubscribers :
        \/ \E email \in Emails : SubscribeValidate(r, email)
        \/ SubscribeGet(r)
        \/ SubscribeCreate(r)
        \/ SubscribeReget(r)
        \/ SubscribeSave(r)

SpecNews == InitNews /\ [][NextNews]_vars

\* C9: a subscribe request with a well-formed email whose subscription
\* record exists with is_active false reports success, sets is_active true
\* and creates no second record; no email ever has two records.
C9_Resubscribe ==
    /\ \A x, y \in Rows(subs) : x.email = y.email => x.id = y.id
    /\ \A r \in DOMAIN req :
          (/\ req[r].pc = "done"
           /\ req[r].op = "subscribe"
           /\ IsEmail(req[r].email)
           /\ <<req[r].email, FALSE>> \in req[r].before)
          => /\ req[r].resp = SubscribeSuccess
             /\ \A x \in SubscriptionOf(req[r].email) : x.is_active

(***************************************************************************)
(* The commenting specification: comment requests, served one after the    *)
(* other, on the seeded post and its thread                                *)
(***************************************************************************)

\* 9 characters, 10 characters, and 9 characters with a space after them
ContentNine == Rep(<<"c">>, 9)
ContentTen == Rep(<<"c">>, 10)
ContentPadded == Rep(<<"c">>, 9) \o <<" ">>
CommentContents == {ContentNine, ContentTen, ContentPadded}

\* no parent, the comments of the store, and the id of no comment
ParentIds == {0} \cup DOMAIN comments \cup {ids.comment}

InitComments ==
    /\ InitSeeded
    /\ subs = NoRows
    /\ req = [r \in {1} |-> IdleReq]

\* the comment table and the clock have room for one more comment
CommentsBelowCap == ids.comment <= MaxComments /\ now < MaxTime

NextComments ==
    \/ \E user \in Requesters, slug \in Slugs,
          content \in CommentContents, parent_id \in ParentIds :
            AddCommentLoad(1, user, slug, content, parent_id)
    \/ CommentsBelowCap /\ AddCommentSave(1)
    \/ Reply(1)

SpecComments == InitComments /\ [][NextComments]_vars

\* the comments this step stores
NewComments == {comments'[c] : c \in DOMAIN comments' \ DOMAIN comments}

\* request r, of an authenticated user for a stored post, arrives with this
\* content
CommentArrives(r) ==
    /\ Arrives(r)
    /\ req'[r].op = "comment"
    /\ is_authenticated(req'[r].user)
    /\ PostsWithSlug(req'[r].slug) # {}

\* an accepted request stores exactly one comment, on the addressed post, of
\* the requesting user, approved
AcceptedCommentStored ==
    \A r \in DOMAIN req :
        (req[r].pc = "comment_save" /\ Answers(r) /\ req[r].row = 0)
        => /\ req'[r].resp = Resp(302, "commented")
           /\ DOMAIN comments \subseteq DOMAIN comments'
           /\ \A c \in DOMAIN comments : comments'[c] = comments[c]
           /\ Cardinality(NewComments) = 1
           /\ \A c \in NewComments :
                 /\ c.post = req[r].obj.id
                 /\ req[r].obj.slug = req[r].slug
                 /\ c.user = req[r].user
                 /\ c.parent = 0
                 /\ c.is_approved

\* C11: an add_comment request whose content is shorter than 10 characters
\* is rejected with a validation error and leaves the stored comments
\* unchanged; one whose content has 10 or more characters and no parent_id
\* creates exactly one comment, on the addressed post, of the requesting
\* user, approved.
C11_CommentLength ==
    [][/\ \A r \in DOMAIN req :
             CommentArrives(r) =>
                 IF Len(req'[r].content) < MinCommentLen
                 THEN /\ req'[r].resp = Resp(302, "invalid")
                      /\ comments' = comments
                 ELSE req'[r].row = 0 => req'[r].pc = "comment_save"
       /\ AcceptedCommentStored]_vars

\* C11 as the code has it: the length that counts is that of the content
\* with its leading and trailing whitespace stripped.
C11_CommentLengthStripped ==
    [][/\ \A r \in DOMAIN req :
             CommentArrives(r) =>
                 IF Len(StripWs(req'[r].content)) < MinCommentLen
                 THEN /\ req'[r].resp = Resp(302, "invalid")
                      /\ comments' = comments
                 ELSE req'[r].row = 0 => req'[r].pc = "comment_save"
       /\ AcceptedCommentStored]_vars

\* a comment of exactly 10 characters was stored, and one of 10 characters
\* that strip to 9 was rejected
C11_Witness ==
    /\ \E c \in Rows(comments) :
          c.id \notin DOMAIN SeedComments /\ Len(c.content) = MinCommentLen
    /\ \E r \in DOMAIN req :
          /\ req[r].op = "comment"
          /\ req[r].content = ContentPadded
          /\ req[r].resp = Resp(302, "invalid")

(***************************************************************************)
(* The saving specification: one worker creates, edits and views posts    *)
(* with contents long enough to be truncated and rounded                   *)
(***************************************************************************)

\* 500 words: two and a half minutes of reading
ContentLong == Rep(<<"w", " ">>, 500)

\* markup and nothing else: no word is left when the tags are stripped
ContentTagsOnly == Rep(<<"<", "b", "r", ">">>, 13)

\* a title slugify leaves nothing of
TitleSymbols == <<"?", "!", "?", "!", "?">>

FormLong == [FormDraft EXCEPT !.content = ContentLong]

FormSymbols ==
    [FormDraft EXCEPT !.title = TitleSymbols, !.content = ContentTagsOnly]

\* a published post under an excerpt its author wrote
FormKept == [FormPublished EXCEPT !.excerpt = ExcerptGiven]

SaveForms == {FormOther, FormLong, FormKept, FormSymbols}

\* the author whose requests the saving specification follows
Author == "alice"

InitSave ==
    /\ posts = NoRows
    /\ comments = NoRows
    /\ likes = NoRows
    /\ subs = NoRows
    /\ ids = [post |-> 1, comment |-> 1, like |-> 1, sub |-> 1]
    /\ now = 1
    /\ req = [r \in {1} |-> IdleReq]

NextSave ==
    \/ \E form \in SaveForms : CreatePost(1, Author, form)
    \/ \E slug \in Slugs, form \in SaveForms :
          UpdateLoad(1, Author, slug, form)
    \/ UpdateSave(1)
    \/ \E slug \in Slugs :
          ViewsBelowCap(slug) /\ DetailLoad(1, Author, slug)
    \/ DetailSave(1)
    \/ Reply(1)

SpecSave == InitSave /\ [][NextSave]_vars

\* the words of a post's content once its markup is stripped
Words(p) == WordCount(strip_tags(p.content))

\* k is W / WordsPerMinute rounded to the nearest integer, a half going to
\* the even neighbour
IsRounded(k, W) ==
    /\ (2 * k - 1) * WordsPerMinute <= 2 * W
    /\ 2 * W <= (2 * k + 1) * WordsPerMinute
    /\ (2 * W = (2 * k - 1) * WordsPerMinute
          \/ 2 * W = (2 * k + 1) * WordsPerMinute) => k % 2 = 0

\* C12: every stored post's reading_time is max(1, round(W / 200)), W the
\* number of whitespace-separated words of its content stripped of markup;
\* it is at least 1 also when the content has no word at all.
C12_ReadingTime ==
    \A p \in Rows(posts) :
        LET W == Words(p)
        IN  /\ p.reading_time >= 1
            /\ \E k \in 0..(W \div WordsPerMinute + 1) :
                  /\ IsRounded(k, W)
                  /\ p.reading_time = IF k >= 1 THEN k ELSE 1

C12_Witness ==
    /\ \E p \in Rows(posts) :
          /\ 2 * Words(p) = 5 * WordsPerMinute
          /\ p.reading_time = 2
    /\ \E p \in Rows(posts) : Words(p) = 0 /\ p.reading_time = 1
    /\ req[1].op = "update" /\ req[1].resp = Resp(302, "updated")

\* what Post.save is to leave in the excerpt of the instance it saves
ExpectedExcerpt(self) ==
    IF self.excerpt # << >> THEN self.excerpt
    ELSE IF self.content = << >> THEN << >>
    ELSE LET text == strip_tags(self.content)
             n == IF Len(text) < ExcerptChars THEN Len(text) ELSE ExcerptChars
         IN  [i \in 1..(n + 3) |-> IF i <= n THEN text[i] ELSE "."]

\* the save of a created post stores the expected excerpt
CreateStoresExcerpt ==
    (/\ Arrives(1)
     /\ req'[1].op = "create"
     /\ ids'.post # ids.post)
    => posts'[ids.post].excerpt = ExpectedExcerpt(req'[1].obj)

\* the save of an edited post stores the expected excerpt
UpdateStoresExcerpt ==
    (/\ req[1].pc = "update_save"
     /\ req'[1].resp = Resp(302, "updated"))
    => posts'[req[1].obj.id].excerpt = ExpectedExcerpt(req[1].obj)

\* no other step touches a stored excerpt
OthersKeepExcerpt ==
    \A p \in DOMAIN posts \cap DOMAIN posts' :
        posts'[p].excerpt # posts[p].excerpt => req[1].pc = "update_save"

\* C13: every save of a post stores a non-empty excerpt verbatim, and for an
\* empty excerpt with non-empty content stores the first 297 characters of
\* the content stripped of markup followed by "..."; an excerpt that is set
\* is not derived again.
C13_Excerpt ==
    [][CreateStoresExcerpt /\ UpdateStoresExcerpt /\ OthersKeepExcerpt]_vars

C13_Witness ==
    /\ req[1].op = "update" /\ req[1].resp = Resp(302, "updated")
    /\ \E p \in PostsWithSlug(req[1].slug) :
          /\ p.excerpt = ExcerptGiven
          /\ p.title = TitleHello
          /\ p.slug = slugify(TitleOther)
    /\ \E p \in Rows(posts) :
          /\ p.content = StripWs(ContentLong)
          /\ Len(p.excerpt) = MaxExcerptLen

\* a stored non-empty slug stays as it is
SlugKept ==
    \A p \in DOMAIN posts \cap DOMAIN posts' :
        posts[p].slug # << >> => posts'[p].slug = posts[p].slug

\* a slug that appears is that of the title, and it takes the place of an
\* empty one
SlugDerivedWhenEmpty ==
    \A p \in DOMAIN posts' :
        LET was == IF p \in DOMAIN posts THEN posts[p].slug ELSE << >>
        IN  /\ posts'[p].slug # was =>
                  was = << >> /\ posts'[p].slug = slugify(posts'[p].title)
            /\ p \notin DOMAIN posts =>
                  posts'[p].slug = slugify(posts'[p].title)

\* C20: no edit through the update operation changes the non-empty slug of a
\* stored post, even when it changes the title; the slug is derived from the
\* title only on a save at which the slug is empty.
C20_SlugFrozen == [][SlugKept /\ SlugDerivedWhenEmpty]_vars

C20_Witness ==
    /\ req[1].op = "update" /\ req[1].resp = Resp(302, "updated")
    /\ \E p \in PostsWithSlug(req[1].slug) :
          /\ p.slug # << >>
          /\ p.slug # slugify(p.title)
          /\ p.title = TitleOther

\* C16: the stored view_count of a post never decreases and is never
\* negative, whatever detail views and author edits interleave.
C16_ViewCountMonotone ==
    [][\A p \in DOMAIN posts \cap DOMAIN posts' :
          /\ posts'[p].view_count >= posts[p].view_count
          /\ posts'[p].view_count >= 0]_vars

\* request r makes a step of the detail view
DetailStep(r) ==
    \/ req[r].pc = "detail_save" /\ Answers(r)
    \/ Arrives(r) /\ req'[r].op = "detail"

\* the post a detail request looks at
PostViewed(r) ==
    IF req[r].pc = "detail_save" THEN req[r].obj
    ELSE IF req'[r].resp.code = 200 THEN req'[r].resp.post
    ELSE NullPost

\* a step of the detail view writes the view_count of the post it looks at
\* and nothing else, and writes nothing when that post is a draft
DetailFrame ==
    \A r \in DOMAIN req :
        DetailStep(r) =>
            /\ UNCHANGED <<comments, likes, subs>>
            /\ DOMAIN posts' = DOMAIN posts
            /\ \A p \in DOMAIN posts :
                  /\ [posts'[p] EXCEPT !.view_count = 0]
                        = [posts[p] EXCEPT !.view_count = 0]
                  /\ posts'[p] # posts[p] => p = PostViewed(r).id
            /\ PostViewed(r).status = "draft" => posts' = posts

\* C19: a detail view changes no stored field of the viewed post other than
\* view_count, changes no other post, comment or like, and changes nothing
\* at all when the post is a draft.
C19_DetailFrame == [][DetailFrame]_vars

C19_Witness ==
    /\ \E r \in DOMAIN req :
          /\ req[r].op = "detail"
          /\ req[r].resp.code = 200
          /\ req[r].resp.post.status = "published"
          /\ posts[req[r].resp.post.id].title # req[r].resp.post.title
          /\ posts[req[r].resp.post.id].view_count = req[r].resp.post.view_count

(***************************************************************************)
(* The interaction specification: comments, likes and deletions on a       *)
(* published post of alice and a draft of bob, one request after another   *)
(* (no create of a like ever meets a like stored since its get)            *)
(***************************************************************************)

SeedOther ==
    [PostSave(NewPost(FormOther, "bob"), 2) EXCEPT !.id = 2, !.created_at = 2]

\* a comment on each post, and a reply to the first
SeedThreads ==
    [i \in 1..3 |->
        CASE i = 1 -> SeedComment(1, "bob", 0, TRUE, 3)
          [] i = 2 -> [SeedComment(2, "bob", 0, TRUE, 4) EXCEPT !.post = 2]
          [] i = 3 -> SeedComment(3, "alice", 1, TRUE, 5)]

InitInteract ==
    /\ posts = Insert(Insert(NoRows, SeedPost), SeedOther)
    /\ comments = SeedThreads
    /\ likes = Insert(NoRows, SeedLike)
    /\ subs = NoRows
    /\ ids = [post |-> 3, comment |-> 4, like |-> 2, sub |-> 1]
    /\ now = 6
    /\ req = [r \in {1} |-> IdleReq]

NextInteract ==
    \/ \E user \in Users, slug \in Slugs, parent_id \in ParentIds :
          AddCommentLoad(1, user, slug, ContentTen, parent_id)
    \/ CommentsBelowCap /\ AddCommentSave(1)
    \/ \E op \in LikeOps, user \in Users, slug \in Slugs :
          LikeGet(1, op, user, slug)
    \/ LikeCreate(1)
    \/ LikeDelete(1)
    \/ \E user \in Users, slug \in Slugs : DeletePost(1, user, slug)
    \/ Reply(1)

SpecInteract == InitInteract /\ [][NextInteract]_vars

\* every comment and like is on a stored post, every reply under a stored
\* comment
Referential ==
    /\ \A c \in Rows(comments) :
          /\ c.post \in DOMAIN posts
          /\ c.parent # 0 => c.parent \in DOMAIN comments
    /\ \A l \in Rows(likes) : l.post \in DOMAIN posts

\* the deletion of a post removes its comments and its likes, and those only
DeleteTakesOwnRows ==
    LET gone == DOMAIN posts \ DOMAIN posts'
    IN  gone # {} =>
            /\ \A c \in DOMAIN comments :
                  c \notin DOMAIN comments' <=> comments[c].post \in gone
            /\ \A l \in DOMAIN likes :
                  l \notin DOMAIN likes' <=> likes[l].post \in gone

\* C14: every comment and every like refers to a stored post and every reply
\* to a stored parent comment; deleting a post removes all its comments,
\* replies included, and all its likes in the same operation, and removes
\* nothing that belongs to another post.
C14_CascadeOwnRows == []Referential /\ [][DeleteTakesOwnRows]_vars

\* the likes given or taken back in this step
LikesChanged ==
    (Rows(likes') \ Rows(likes)) \cup (Rows(likes) \ Rows(likes'))

\* whatever like appears on or disappears from a draft that stays stored, and
\* whatever comment appears on it, is its author's
DraftTouchedByAuthorOnly ==
    \A p \in DOMAIN posts \cap DOMAIN posts' :
        posts[p].status = "draft" =>
            /\ \A l \in LikesChanged :
                  l.post = p => l.user = posts[p].author
            /\ \A c \in Rows(comments') \ Rows(comments) :
                  c.post = p => c.user = posts[p].author

\* C18: no like_post, ajax_like_post or add_comment request of a user other
\* than the author creates or deletes a like, or creates a comment, on a
\* draft post.
C18_DraftUntouched == [][DraftTouchedByAuthorOnly]_vars

(***************************************************************************)
(* The search specification: the post list and the advanced search are     *)
(* asked over three posts, drafts or published, liked or not               *)
(***************************************************************************)

\* the terms asked for, in capitals: "WE" is in two tags of the first post
\* and in the title of the second, "E" in every title and tag
SearchTerms == {<< >>, <<"W","E">>, <<"E">>}

\* the posts: "Hello World" under the tags Web, Dev and Weekly, "Web Things"
\* and "Other Post" under the tag Dev
SearchForms ==
    <<[FormDraft EXCEPT
          !.tags = {TagWeb, TagDev, <<"W","e","e","k","l","y">>}],
      [FormDraft EXCEPT
          !.title = <<"W","e","b"," ","T","h","i","n","g","s">>,
          !.tags = {TagDev}],
      FormOther>>

\* post i, of alice but for the second, which is of bob
SearchPost(i, status) ==
    [PostSave(NewPost([SearchForms[i] EXCEPT !.status = status],
                      IF i = 2 THEN "bob" ELSE "alice"), i)
       EXCEPT !.id = i, !.created_at = i]

\* the likes that may be stored
SearchLikes ==
    <<[id |-> 1, post |-> 1, user |-> "bob"],
      [id |-> 2, post |-> 2, user |-> "alice"],
      [id |-> 3, post |-> 2, user |-> "bob"],
      [id |-> 4, post |-> 3, user |-> "bob"]>>

InitSearch ==
    /\ \E status \in [1..3 -> {"draft", "published"}] :
          posts = [i \in 1..3 |-> SearchPost(i, status[i])]
    /\ comments = SeedThreads
    /\ \E given \in SUBSET (1..4) : likes = [l \in given |-> SearchLikes[l]]
    /\ subs = NoRows
    /\ ids = [post |-> 4, comment |-> 4, like |-> 5, sub |-> 1]
    /\ now = 6
    /\ req = [r \in {1} |-> IdleReq]

NextSearch ==
    \/ \E query \in SearchTerms, tag \in TagSlugs,
          author \in AuthorNames :
             PostList(1, query, tag, author)
    \/ \E query \in SearchTerms, tag \in TagSlugs,
          author \in AuthorNames,
          sort \in {"newest", "popular", "views", "comments"} :
             AdvancedSearch(1, query, tag, author, sort)
    \/ Reply(1)

SpecSearch == InitSearch /\ [][NextSearch]_vars

\* the term is a case-insensitive substring of the post's title, content,
\* excerpt or of the name of one of its tags
TermIn(p, term) ==
    \/ IContains(p.title, term)
    \/ IContains(p.content, term)
    \/ IContains(p.excerpt, term)
    \/ \E t \in p.tags : IContains(t, term)

\* how often the post of this id is in the results
Times(results, id) == Cardinality({i \in DOMAIN results : results[i] = id})

\* the post is what the request asks for
Asked(p, params) ==
    /\ p.status = "published"
    /\ TermIn(p, params.query)
    /\ params.tag # << >> => \E t \in p.tags : slugify(t) = params.tag
    /\ params.author # "" => p.author = params.author

\* C15: a search with a term, in the post list and in the advanced search,
\* contains a post exactly once if it is published and the term is a
\* case-insensitive substring of its title, content, excerpt or of the name
\* of one of its tags, and not at all otherwise; a post matching through its
\* tags only, or through several tags, is there once.
C15_SearchOnce ==
    (req[1].pc = "done" /\ req[1].op \in {"list", "search"}
        /\ req[1].params.query # << >>)
    => \A p \in Rows(posts) :
          Times(req[1].resp.results, p.id)
              = IF Asked(p, req[1].params) THEN 1 ELSE 0

C15_Witness ==
    /\ req[1].pc = "done" /\ req[1].op = "list"
    /\ req[1].params = [query |-> <<"W","E">>, tag |-> << >>,
                        author |-> "", sort |-> "newest"]
    /\ posts[1].status = "published"
    /\ posts[2].status = "draft"
    /\ req[1].resp.results = <<1>>

\* the Like rows of the post of this id
LikesOf(id) == Cardinality({l \in DOMAIN likes : likes[l].post = id})

\* C17: the advanced search sorted by popular returns the posts in
\* non-increasing order of their number of Like rows, posts with as many
\* likes the newer first, whatever term, tag and author are asked for.
C17_PopularOrder ==
    (req[1].pc = "done" /\ req[1].op = "search"
        /\ req[1].params.sort = "popular")
    => LET results == req[1].resp.results
       IN  \A i, j \in DOMAIN results :
              i < j =>
                  \/ LikesOf(results[i]) > LikesOf(results[j])
                  \/ /\ LikesOf(results[i]) = LikesOf(results[j])
                     /\ posts[results[i]].created_at
                           >= posts[results[j]].created_at

\* one like on the first post, two on the second, and the first post ahead
C17_Inverted ==
    /\ req[1].pc = "done" /\ req[1].op = "search"
    /\ req[1].params = [query |-> <<"E">>, tag |-> << >>, author |-> "",
                        sort |-> "popular"]
    /\ LikesOf(1) = 1 /\ LikesOf(2) = 2 /\ LikesOf(3) = 0
    /\ req[1].resp.results = <<1, 2, 3>>

=============================================================================
